---- MODULE Spec2Model ----
(***************************************************************************)
(* Model of the autotex compilation-log annotator                          *)
(* (submit/filters/tex_filters.py, compilation_log_display).               *)
(*                                                                         *)
(* Text is a sequence of atoms.  An atom is a word, a punctuation mark or  *)
(* a fixed phrase of the log; atoms of one line are separated by blanks    *)
(* and the atom NL is the line terminator.  A regular expression is a      *)
(* sequence of literals, each one adjacent to the previous literal or      *)
(* separated from it by a ".*" gap, and is matched greedily, leftmost      *)
(* first, as Python's re module matches it.                                *)
(***************************************************************************)
EXTENDS Naturals, Sequences, FiniteSets, TLC

VARIABLES autotex_log, submission_id, compilation_status, pc, st, trace, result,
          other, req

vars == <<autotex_log, submission_id, compilation_status, pc, st, trace, result,
          other, req>>

(***************************************************************************)
(* Bounds of the model.                                                    *)
(***************************************************************************)
MaxLines == 3

(***************************************************************************)
(* Atoms and text.                                                         *)
(***************************************************************************)
NL == "\n"

MaxOf(S) == CHOOSE m \in S : \A n \in S : n <= m

MinOf(S) == CHOOSE m \in S : \A n \in S : m <= n

\* str.splitlines(): the lines of a text, without their terminators.
RECURSIVE SplitLines(_)
SplitLines(text) ==
    IF text = <<>> THEN <<>>
    ELSE LET nls == {i \in DOMAIN text : text[i] = NL}
         IN IF nls = {} THEN <<text>>
            ELSE LET i == MinOf(nls)
                 IN <<SubSeq(text, 1, i - 1)>>
                        \o SplitLines(SubSeq(text, i + 1, Len(text)))

\* The text whose lines are ls: each line but the last is followed by NL.
RECURSIVE JoinLines(_)
JoinLines(ls) ==
    IF ls = <<>> THEN <<>>
    ELSE IF Len(ls) = 1 THEN Head(ls)
    ELSE Head(ls) \o <<NL>> \o JoinLines(Tail(ls))

\* html.escape(s) with quote=True, atom by atom: the five characters
\* & < > " ' are rewritten, every other character is kept.
EscapeAtom(a) ==
    CASE a = "&" -> "&amp;"
      [] a = "<" -> "&lt;"
      [] a = ">" -> "&gt;"
      [] a = "'" -> "&#x27;"
      [] a = "\"" -> "&quot;"
      [] OTHER -> a

Escape(line) == [i \in DOMAIN line |-> EscapeAtom(line[i])]

\* The markup characters of an unescaped text.
RawMarkup == {"&", "<", ">"}

(***************************************************************************)
(* Regular expressions over atoms.                                         *)
(***************************************************************************)
\* The literals an atom contains (case-sensitive), beside the atom itself.
Parts(a) ==
    CASE a = "rerunfilecheck" -> {"rerun"}
      [] a = "(rerunfilecheck)" -> {"rerunfilecheck", "rerun"}
      [] a = "Successfully created PDF file:" -> {"file"}
      [] a = "not found; characters will be left blank." -> {"not found"}
      [] a = "AutoTeX returned error: missfont.log present." ->
             {"AutoTeX returned error: missfont.log present", "missfont.log present"}
      [] a = "missfont.log present." -> {"missfont.log present"}
      [] a = "No log available." -> {"No log available"}
      [] a = "No log available!" -> {"No log available"}
      [] a = "{cannot-use-pdftex}" -> {"cannot-use-pdftex"}
      [] a = "<span class=\"tex-ignore\">" -> {"ignore"}
      [] a = "<span class=\"tex-fatal\">" -> {"fatal"}
      [] a = "<span class=\"tex-warning\">" -> {"warning"}
      [] OTHER -> {}

CS(a) == {a} \cup Parts(a)

\* The literals of an atom that a further character of the atom follows.
Followed(a) ==
    CASE a = "AutoTeX returned error: missfont.log present." ->
             {"AutoTeX returned error: missfont.log present", "missfont.log present"}
      [] a = "missfont.log present." -> {"missfont.log present"}
      [] a = "No log available." -> {"No log available"}
      [] a = "No log available!" -> {"No log available"}
      [] OTHER -> {}

\* str.lower() on the literals of the model.
Lower(s) ==
    CASE s = "Running" -> "running"
      [] s = "RUNNING" -> "running"
      [] s = "First" -> "first"
      [] s = "Warning" -> "warning"
      [] s = "Fatal" -> "fatal"
      [] s = "Citation" -> "citation"
      [] s = "Reference" -> "reference"
      [] s = "Rerun" -> "rerun"
      [] s = "No" -> "no"
      [] s = "LaTeX" -> "latex"
      [] s = "Package" -> "package"
      [] s = "The fontspec package requires either XeTeX or LuaTeX." ->
             "the fontspec package requires either xetex or luatex."
      [] s = "*** AutoTeX ABORTING ***" -> "*** autotex aborting ***"
      [] s = "AutoTeX returned error: missfont.log present" ->
             "autotex returned error: missfont.log present"
      [] s = "dvips: Font" -> "dvips: font"
      [] s = "*** Using TeX Live 2016 ***" -> "*** using tex live 2016 ***"
      [] s = "Extracting files from archive:" -> "extracting files from archive:"
      [] s = "Successfully created PDF file:" -> "successfully created pdf file:"
      [] s = "** AutoTeX job completed. **" -> "** autotex job completed. **"
      [] s = "get arXiv to do 4 passes: Label(s) may have changed" ->
             "get arxiv to do 4 passes: label(s) may have changed"
      [] OTHER -> s

\* Whether atom a matches the literal lit, case-insensitively when ci.
Lit(a, lit, ci) ==
    IF ci THEN Lower(lit) \in {Lower(s) : s \in CS(a)} ELSE lit \in CS(a)

\* A pattern element: a literal and how it follows the previous literal.
\*   "adj"   next atom
\*   "any"   after a ".*" with no blank around it: any later atom
\*   "some"  after " .* ": at least one atom in between
El(lit, gap) == [lit |-> lit, gap |-> gap]

\* A pattern: its elements, whether it begins with ".*", and how it ends
\* ("" nothing, "dot" one more character, "dotstar" the rest of the line).
Pat(els, lead, trail) == [els |-> els, lead |-> lead, trail |-> trail]

Word(lit) == Pat(<<El(lit, "adj")>>, FALSE, "")

NoMatch == <<0>>

\* The positions of els[k], els[k+1], ... in the line when els[k-1] stands at
\* position p, each gap as long as a match of the rest allows; NoMatch if the
\* rest cannot match.
RECURSIVE MatchFrom(_, _, _, _, _)
RECURSIVE Longest(_, _, _, _, _)
MatchFrom(line, els, k, p, ci) ==
    IF k > Len(els) THEN <<>>
    ELSE Longest(line, els, k, ci,
                 {q \in (IF els[k].gap = "some" THEN p + 2 ELSE p + 1)
                          ..(IF els[k].gap = "adj" THEN p + 1 ELSE Len(line)) :
                     /\ q <= Len(line)
                     /\ Lit(line[q], els[k].lit, ci)
                     /\ MatchFrom(line, els, k + 1, q, ci) # NoMatch})

\* Of the positions cands where els[k] can stand, the last one.
Longest(line, els, k, ci, cands) ==
    IF cands = {} THEN NoMatch
    ELSE <<MaxOf(cands)>> \o MatchFrom(line, els, k + 1, MaxOf(cands), ci)

\* Whether one more character follows the literal lit standing at position p:
\* a character of the same atom, or the blank before the next atom.
DotOk(line, p, lit, ci) ==
    \/ p < Len(line)
    \/ IF ci THEN Lower(lit) \in {Lower(x) : x \in Followed(line[p])}
       ELSE lit \in Followed(line[p])

\* A match whose first literal stands at s and whose other literals stand at
\* rest; a final "." needs one more character.
Whole(line, P, s, rest, ci) ==
    IF rest = NoMatch THEN NoMatch
    ELSE IF /\ P.trail = "dot"
            /\ ~DotOk(line, (<<s>> \o rest)[1 + Len(rest)], P.els[Len(P.els)].lit, ci)
    THEN NoMatch
    ELSE <<s>> \o rest

\* The positions of all elements for a match whose first literal stands at s.
MatchAt(line, P, s, ci) ==
    IF s \in DOMAIN line /\ Lit(line[s], P.els[1].lit, ci)
    THEN Whole(line, P, s, MatchFrom(line, P.els, 2, s, ci), ci)
    ELSE NoMatch

\* Of the matches found, the first (the last for a pattern that begins ".*").
Leftmost(P, found) ==
    IF found = {} THEN NoMatch
    ELSE IF P.lead THEN CHOOSE m \in found : \A n \in found : n[1] <= m[1]
    ELSE CHOOSE m \in found : \A n \in found : m[1] <= n[1]

\* re.search from position `from`: the positions of the elements of the match.
Match(line, P, from, ci) ==
    Leftmost(P, {MatchAt(line, P, s, ci) : s \in from..Len(line)} \ {NoMatch})

Search(line, P, ci) == Match(line, P, 1, ci) # NoMatch

\* The text a match covers: <<first, last>> positions of the line.
Span(line, P, from, ps) ==
    << IF P.lead THEN from ELSE ps[1],
       IF P.trail = "dotstar" THEN Len(line) ELSE ps[Len(ps)] >>

\* re.sub(regex, '<span class="tex-LEVEL">\1</span>', line): every
\* non-overlapping match, left to right, is wrapped.
SpanOpen(level) == "<span class=\"tex-" \o level \o "\">"

SpanClose == "</span>"

RECURSIVE SubFrom(_, _, _, _)
RECURSIVE Wrap(_, _, _, _, _)
SubFrom(line, P, from, level) ==
    IF from > Len(line) THEN <<>>
    ELSE Wrap(line, P, from, level, Match(line, P, from, TRUE))

Wrap(line, P, from, level, ps) ==
    IF ps = NoMatch THEN SubSeq(line, from, Len(line))
    ELSE SubSeq(line, from, Span(line, P, from, ps)[1] - 1)
           \o <<SpanOpen(level)>>
           \o SubSeq(line, Span(line, P, from, ps)[1], Span(line, P, from, ps)[2])
           \o <<SpanClose>>
           \o SubFrom(line, P, Span(line, P, from, ps)[2] + 1, level)

Sub(line, P, level) == SubFrom(line, P, 1, level)

(***************************************************************************)
(* Constants of tex_filters.py.                                            *)
(***************************************************************************)
TEX == <<"tex">>

LATEX == <<"latex">>

PDFLATEX == <<"pdflatex">>

\* r'(\~+\sRunning <engine>.*\s\~+)'
RunningPat(engine) ==
    Pat(<<El("~", "adj"), El("Running", "adj"), El(engine, "adj"), El("~", "any")>>,
        FALSE, "")

ENABLE_TEX == RunningPat("tex")

ENABLE_LATEX == RunningPat("latex")

ENABLE_PDFLATEX == RunningPat("pdflatex")

DISABLE_HTEX == RunningPat("htex")

DISABLE_HLATEX == RunningPat("hlatex")

DISABLE_HPDFLATEX == RunningPat("hpdflatex")

RUN_ORDER == << <<"last">>, <<"first">>, <<"second">>, <<"third">>, <<"fourth">> >>

\* list.index(x): the position of x, 0 standing for ValueError.
Index(seq, x) ==
    IF \E i \in DOMAIN seq : seq[i] = x
    THEN MinOf({i \in DOMAIN seq : seq[i] = x})
    ELSE 0

initialize_error_summary ==
    <<NL, "Summary of", SpanOpen("fatal"), "Critical Errors:", SpanClose, NL, NL,
      "<ul>", NL>>

finalize_error_summary(error_summary) == error_summary \o <<"</ul>", NL>>

\* r'No log available.' (the final "." is any one character)
NoLogPat == Pat(<<El("No log available", "adj")>>, FALSE, "dot")

\* r'\~+\sRunning (.*) for the (.*) time\s\~+'
run_regex ==
    Pat(<<El("~", "adj"), El("Running", "adj"), El("for the", "some"),
          El("time", "some"), El("~", "adj")>>, FALSE, "")

\* The two groups of a match of run_regex standing at positions ps.
Groups(line, ps) ==
    IF ps = NoMatch THEN <<>>
    ELSE << [engine |-> SubSeq(line, ps[2] + 1, ps[3] - 1),
             run |-> SubSeq(line, ps[3] + 1, ps[4] - 1)] >>

\* run_regex.search(line): <<>> when nothing matches, else one record with
\* the two groups of the match.
RunSearch(line) == Groups(line, Match(line, run_regex, 1, TRUE))

\* run_regex.findall(autotex_log): "." matches no line terminator, so a
\* match lies within one line, and the greedy groups leave no second match
\* on the same line.
RECURSIVE FindAllRuns(_)
FindAllRuns(lines) ==
    IF lines = <<>> THEN <<>>
    ELSE RunSearch(Head(lines)) \o FindAllRuns(Tail(lines))

Filter(level, pat, run) == [level |-> level, pat |-> pat, run |-> run]

\* The filters list, in the order of the source.
filters == <<
    Filter("ignore", Word("get arXiv to do 4 passes: Label(s) may have changed"), <<>>),
    Filter("abort", Pat(<<El("Fatal", "adj"), El("fontspec", "adj"), El("error", "adj"),
                         El(":", "adj"), El("\"", "adj"), El("cannot-use-pdftex", "adj"),
                         El("\"", "adj")>>, FALSE, ""), <<>>),
    Filter("abort", Word("The fontspec package requires either XeTeX or LuaTeX."), <<>>),
    Filter("abort", Word("{cannot-use-pdftex}"), <<>>),
    Filter("fatal", Word("*** AutoTeX ABORTING ***"), <<>>),
    Filter("fatal", Pat(<<El("AutoTeX returned error: missfont.log present", "adj")>>,
                         TRUE, "dot"), <<>>),
    Filter("fatal", Pat(<<El("dvips: Font", "adj"),
                          El("not found; characters will be left blank.", "some")>>,
                         FALSE, ""), <<>>),
    Filter("fatal", Pat(<<El("missfont.log present", "adj")>>, TRUE, "dot"), <<>>),
    Filter("fatal", Pat(<<El("Fatal", "adj"), El("error", "some")>>, FALSE, ""), <<>>),
    Filter("fatal", Word("fatal"), <<>>),
    Filter("danger", Pat(<<El("file", "adj"), El("not found", "some")>>, FALSE, ""), <<>>),
    Filter("danger", Word("failed"), <<>>),
    Filter("danger", Word("emergency stop"), <<>>),
    Filter("danger", Word("not allowed"), <<>>),
    Filter("danger", Word("does not exist"), <<>>),
    Filter("danger", Pat(<<El("Package", "adj"), El("rerunfilecheck", "adj"),
                           El("Warning", "adj"), El(":", "adj")>>, FALSE, "dotstar"),
           <<"last">>),
    Filter("danger", Pat(<<El("(rerunfilecheck)", "adj")>>, TRUE, "dotstar"), <<"last">>),
    Filter("danger", Word("rerun"), <<"last">>),
    Filter("warning", Pat(<<El("Citation", "adj"), El("undefined", "any")>>, FALSE, ""),
           <<"last">>),
    Filter("warning", Pat(<<El("Reference", "adj"), El("undefined", "any")>>, FALSE, ""),
           <<"last">>),
    Filter("warning", Pat(<<El("No", "adj"), El("file", "some")>>, FALSE, ""), <<>>),
    Filter("warning", Word("warning"), <<"second">>),
    Filter("warning", Word("unsupported"), <<>>),
    Filter("warning", Word("unable"), <<>>),
    Filter("warning", Word("ignore"), <<>>),
    Filter("warning", Word("undefined"), <<"second">>),
    Filter("info", Pat(<<El("~", "adj"), El("Running", "adj"), El("~", "any")>>, FALSE, ""),
           <<>>),
    Filter("info", Word("*** Using TeX Live 2016 ***"), <<>>),
    Filter("success", Word("Extracting files from archive:"), <<>>),
    Filter("success", Word("Successfully created PDF file:"), <<>>),
    Filter("success", Word("** AutoTeX job completed. **"), <<>>),
    Filter("ignore", Pat(<<El("Reference", "adj"), El("undefined", "any")>>, FALSE, ""),
           <<"first">>),
    Filter("ignore", Pat(<<El("Citation", "adj"), El("undefined", "any")>>, FALSE, ""),
           <<"first">>),
    Filter("ignore", Word("warning"), <<"first">>),
    Filter("ignore", Word("undefined"), <<"first">>) >>

(***************************************************************************)
(* The dictionary last_run_for_engine, a sequence of <<key, value>> pairs  *)
(* in insertion order.                                                     *)
(***************************************************************************)
HasKey(d, k) == \E i \in DOMAIN d : d[i][1] = k

Get(d, k) == d[CHOOSE i \in DOMAIN d : d[i][1] = k][2]

\* Mutant: the first value stored for a key is kept.
PutIfAbsent(d, k, v) == IF HasKey(d, k) THEN d ELSE Append(d, <<k, v>>)

\* d[k] = v: an existing key keeps its place.
Put(d, k, v) ==
    IF HasKey(d, k)
    THEN [i \in DOMAIN d |-> IF d[i][1] = k THEN <<k, v>> ELSE d[i]]
    ELSE Append(d, <<k, v>>)

(***************************************************************************)
(* compilation_log_display: the early exit and the locals before the       *)
(* discovery loop.                                                         *)
(***************************************************************************)
\* Mutant: re.match in place of re.search, the sentinel found only at the
\* start of the log.
NoLogAtStart(text) ==
    SplitLines(text) # <<>> /\ MatchAt(SplitLines(text)[1], NoLogPat, 1, FALSE) # NoMatch

\* Mutant: a log without a run banner is returned as it is, too.
NoLogOrNoRuns(text) ==
    \/ \E i \in DOMAIN SplitLines(text) :
          Search(SplitLines(text)[i], NoLogPat, FALSE)
    \/ FindAllRuns(SplitLines(text)) = <<>>

\* re.search(r'No log available.', autotex_log)
NoLogAvailable(text) ==
    \E i \in DOMAIN SplitLines(text) : Search(SplitLines(text)[i], NoLogPat, FALSE)

RunSummaryHead ==
    <<"If you are attempting to compile with a specific engine (PDFLaTeX, LaTeX,", NL,
      "TeX) please carefully review the appropriate log below.", NL, NL,
      "Summary of TeX runs:", NL, NL>>

\* The locals of the call as they stand when the loop over hits begins,
\* with the locals set before the scan at their first values.
Locals(text) ==
    [ run_summary |-> RunSummaryHead,
      key_summary |-> <<>>,
      new_log |-> <<>>,
      last_run_for_engine |-> <<>>,
      hits |-> FindAllRuns(SplitLines(text)),
      h |-> 1,
      enable_markup |-> <<>>,
      disable_markup |-> <<>>,
      success_last_engine |-> <<>>,
      success_last_run |-> <<>>,
      current_engine |-> <<>>,
      current_run |-> <<>>,
      last_run |-> FALSE,
      error_summary |-> <<>>,
      abort_markup |-> FALSE,
      xetex_luatex_abort |-> FALSE,
      emergency_stop |-> FALSE,
      missing_file |-> FALSE,
      missing_font_markup |-> FALSE,
      rerun_markup |-> FALSE,
      final_run_had_errors |-> FALSE,
      final_run_had_warnings |-> FALSE,
      line_by_line |-> SplitLines(text),
      i |-> 1,
      markup_enabled |-> TRUE,
      line |-> <<>>,
      level |-> "",
      actual_level |-> "",
      fired |-> 0,
      raised |-> "" ]

\* One iteration of "for run in hits".
DiscoverHit(s) ==
    LET engine == s.hits[s.h].engine
        run == s.hits[s.h].run
        dis == IF engine = PDFLATEX THEN <<DISABLE_HPDFLATEX>>
               ELSE IF engine = LATEX THEN <<DISABLE_HLATEX>>
               ELSE IF engine = TEX THEN <<DISABLE_HTEX>>
               ELSE <<>>
        en == IF engine = PDFLATEX THEN <<ENABLE_PDFLATEX>>
              ELSE IF engine = LATEX THEN <<ENABLE_LATEX>>
              ELSE IF engine = TEX THEN <<ENABLE_TEX>>
              ELSE <<>>
    IN [s EXCEPT
          !.run_summary = @ \o <<"\tRunning">> \o engine \o <<"for">> \o run
                             \o <<"time.", NL>>,
          !.success_last_engine = engine,
          !.success_last_run = run,
          !.last_run_for_engine = Put(@, engine, run),
          !.disable_markup = @ \o dis,
          !.enable_markup = @ \o en,
          !.h = @ + 1]

\* "\tLast run for engine {e} is {r}\n" for every item of the dictionary.
RECURSIVE LastRunLines(_)
LastRunLines(d) ==
    IF d = <<>> THEN <<>>
    ELSE <<"\tLast run for engine">> \o Head(d)[1] \o <<"is">> \o Head(d)[2] \o <<NL>>
           \o LastRunLines(Tail(d))

\* The statements between the loop over hits and the loop over lines.
AfterHits(s) ==
    [s EXCEPT !.run_summary = @ \o <<NL>> \o LastRunLines(s.last_run_for_engine)]

(***************************************************************************)
(* The loop over lines: enabling and disabling markup, the current run.    *)
(***************************************************************************)
AnyMatch(pats, line) == \E j \in DOMAIN pats : Search(line, pats[j], TRUE)

\* for regex in disable_markup: ...
Disable(s) ==
    IF AnyMatch(s.disable_markup, s.line) THEN [s EXCEPT !.markup_enabled = FALSE] ELSE s

\* found = run_regex.search(line); if found: current_engine, current_run = ...
Found(s, found) ==
    IF found = <<>> THEN s
    ELSE [s EXCEPT !.current_engine = found[1].engine, !.current_run = found[1].run]

SetCurrent(s) == Found(s, RunSearch(s.line))

\* Mutant: the comparison with the last recorded run never sets the flag.
CheckLastNever(s) ==
    IF ~HasKey(s.last_run_for_engine, s.current_engine)
    THEN [s EXCEPT !.raised = "KeyError"]
    ELSE s

\* if last_run_for_engine[current_engine] == current_run: last_run = True
\* The subscription raises KeyError for an engine that is no key.
CheckLast(s) ==
    IF ~HasKey(s.last_run_for_engine, s.current_engine)
    THEN [s EXCEPT !.raised = "KeyError"]
    ELSE IF Get(s.last_run_for_engine, s.current_engine) = s.current_run
    THEN [s EXCEPT !.last_run = TRUE]
    ELSE s

\* if current_engine and current_run: ...
CheckLastIfSet(s) ==
    IF s.current_engine # <<>> /\ s.current_run # <<>> THEN CheckLast(s) ELSE s

\* for regex in enable_markup: ...
Enable(s) ==
    IF ~AnyMatch(s.enable_markup, s.line) THEN s
    ELSE CheckLastIfSet(SetCurrent([s EXCEPT !.markup_enabled = TRUE]))

\* if re.search(run_regex, line): ...
Banner(s) ==
    IF s.raised # "" \/ RunSearch(s.line) = <<>> THEN s ELSE CheckLast(SetCurrent(s))

(***************************************************************************)
(* The body of "if re.search(regex, line, re.IGNORECASE)" for a filter.    *)
(***************************************************************************)
\* Mutant: every entry opens the list.
AddEntryOpening(error_summary, entry) ==
    error_summary \o initialize_error_summary \o entry

\* error_summary opened on first use, else a separating line terminator.
AddEntry(error_summary, entry) ==
    (IF error_summary = <<>> THEN initialize_error_summary ELSE error_summary \o <<NL>>)
        \o entry

XetexEntry(sid) ==
    <<"\t<li>At the current time arXiv does not support XeTeX/LuaTeX.", NL, NL,
      "\tIf you believe that your submission requires a compilation method", NL,
      "\tunsupported by arXiv, please contact", SpanOpen("help"), "help@arxiv.org",
      SpanClose, "for", NL, "\tmore information and provide us with this",
      "submit/" \o ToString(sid), "identifier.</li>">>

MissingFontEntry(sid) ==
    <<"\t<li>A font required by your paper is not available.", "You may try to", NL,
      "\tinclude a non-standard font or substitue an alternative font.", NL,
      "\tSee", SpanOpen("help"), "<a href=\"https://arxiv.org/help/00README#fontmap\">",
      "Custom Fontmaps", "</a>", SpanClose, ". If this is due to a problem with", NL,
      "\tour system, please contact", SpanOpen("help"), "help@arxiv.org", SpanClose,
      "with details", NL, "\tand provide us with this submission identifier:",
      "submit/" \o ToString(sid) \o ".", "</li>">>

RerunEntry ==
    <<"\t<li>Analysis of the compilation log indicates your submission", NL,
      "\tmay need an additional TeX run.", "Please add the following line", NL,
      "\tto your source in order to force an additional TeX run:", NL, NL,
      "\t", SpanOpen("help"),
      "\\typeout{get arXiv to do 4 passes: Label(s) may have changed. Rerun}",
      SpanClose, NL, NL, "\tAdd the above line just before", SpanOpen("help"),
      "\\end{document}", SpanClose, "directive.", "/li>">>

MissingFileEntry(line) ==
    <<"<li>\tA file required by your submission was not found.", NL, "\t">> \o line
      \o <<NL, "\tPlease upload any missing files, or correct any file naming issues,",
           "and then reprocess your submission.</li>">>

EmergencyStopEntry ==
    <<"\t<li>We detected an emergency stop during one of the TeX compilation runs.",
      "Please review the compilation log to determie whether there is a serious",
      "issue with your submission source.</li>">>

\* line = re.sub(regex, rf'<span class="tex-{level}">\1</span>', line, ...)
Markup(s, k) ==
    LET level == IF filters[k].level = "abort" THEN "fatal" ELSE filters[k].level
    IN [s EXCEPT !.actual_level = filters[k].level,
                 !.level = level,
                 !.line = Sub(s.line, filters[k].pat, level),
                 !.fired = k]

\* if compilation_status == 'succeeded' and current_engine == ... : ...
FinalRunFlags(s, status) ==
    IF /\ status = "succeeded"
       /\ s.current_engine = s.success_last_engine
       /\ s.current_run = s.success_last_run
    THEN [s EXCEPT
            !.final_run_had_warnings = IF s.level = "warning" THEN TRUE ELSE @,
            !.final_run_had_errors = IF s.level \in {"danger", "fatal"} THEN TRUE ELSE @]
    ELSE s

\* Currently XeTeX/LuaTeX are the only full abort case.
XetexAbort(s, sid) ==
    IF /\ ~s.abort_markup
       /\ s.actual_level = "abort"
       /\ \/ Search(s.line, filters[2].pat, FALSE)
          \/ Search(s.line, filters[3].pat, FALSE)
          \/ Search(s.line, filters[4].pat, FALSE)
    THEN [s EXCEPT !.error_summary = AddEntry(@, XetexEntry(sid)),
                   !.xetex_luatex_abort = TRUE,
                   !.abort_markup = TRUE]
    ELSE s

\* Handle missfont.
MissingFont(s, sid) ==
    IF /\ ~s.missing_font_markup
       /\ s.level = "fatal"
       /\ Search(s.line, Word("missfont.log present"), FALSE)
    THEN [s EXCEPT !.error_summary = AddEntry(@, MissingFontEntry(sid)),
                   !.missing_font_markup = TRUE]
    ELSE s

\* Detect the common problem where another TeX run is needed.
Rerun(s) ==
    IF /\ ~s.rerun_markup
       /\ s.level = "danger"
       /\ \/ Search(s.line, Word("rerunfilecheck"), FALSE)
          \/ Search(s.line, Word("rerun"), FALSE)
       /\ ~Search(s.line, Word("get arXiv to do 4 passes: Label(s) may have changed"),
                  FALSE)
       /\ ~Search(s.line, Word("oberdiek"), FALSE)
    THEN [s EXCEPT !.error_summary = AddEntry(@, RerunEntry),
                   !.final_run_had_warnings = TRUE,
                   !.rerun_markup = TRUE]
    ELSE s

\* Mutant: the missing-file entry is not guarded by its latch.
MissingFileUnguarded(s) ==
    IF s.level = "danger" /\ Search(s.line, filters[11].pat, TRUE)
    THEN [s EXCEPT !.error_summary = AddEntry(@, MissingFileEntry(s.line)),
                   !.missing_file = TRUE]
    ELSE s

\* Missing file, reported if it occurs during any run.
MissingFile(s) ==
    IF /\ ~s.missing_file
       /\ s.level = "danger"
       /\ Search(s.line, filters[11].pat, TRUE)
    THEN [s EXCEPT !.error_summary = AddEntry(@, MissingFileEntry(s.line)),
                   !.missing_file = TRUE]
    ELSE s

\* Mutant: the emergency stop is reported though a missing file was.
EmergencyStopUnguarded(s) ==
    IF /\ ~s.emergency_stop
       /\ s.level = "danger"
       /\ Search(s.line, Word("emergency stop"), TRUE)
    THEN [s EXCEPT !.error_summary = AddEntry(@, EmergencyStopEntry),
                   !.emergency_stop = TRUE]
    ELSE s

\* Emergency stop, unless the missing file was already reported.
EmergencyStop(s) ==
    IF /\ ~s.missing_file
       /\ ~s.emergency_stop
       /\ s.level = "danger"
       /\ Search(s.line, Word("emergency stop"), TRUE)
    THEN [s EXCEPT !.error_summary = AddEntry(@, EmergencyStopEntry),
                   !.emergency_stop = TRUE]
    ELSE s

\* The whole body for filter k, up to its "break".
Matched(s, k, status, sid) ==
    EmergencyStop(MissingFile(Rerun(MissingFont(
        XetexAbort(FinalRunFlags(Markup(s, k), status), sid), sid))))

(***************************************************************************)
(* "for level, filter, run in filters".                                    *)
(***************************************************************************)
\* Mutant: the abort latch restricts nothing.
AbortSkipsNothing(s, k) == FALSE

\* if abort_markup and level not in ['fatal', 'abort']: continue
AbortSkips(s, k) == s.abort_markup /\ filters[k].level \notin {"fatal", "abort"}

\* if not run: run = 'first'
RunOf(k) == IF filters[k].run = <<>> THEN <<"first">> ELSE filters[k].run

\* RUN_ORDER.index(current_run) raises ValueError for a run not in the list.
RunRaises(s, k) == s.current_run # <<>> /\ Index(RUN_ORDER, s.current_run) = 0

\* Mutant: the ordinal comparison alone, without the clause for "last".
RunSkipsOrdinalOnly(s, k) ==
    /\ s.current_run # <<>>
    /\ Index(RUN_ORDER, RunOf(k)) > Index(RUN_ORDER, s.current_run)

\* if run and current_run and (RUN_ORDER.index(run) > RUN_ORDER.index(current_run)
\*        or (run == 'last' and current_run != last_run_for_engine[current_engine])):
\*     continue
RunSkips(s, k) ==
    /\ s.current_run # <<>>
    /\ \/ Index(RUN_ORDER, RunOf(k)) > Index(RUN_ORDER, s.current_run)
       \/ /\ RunOf(k) = <<"last">>
          /\ s.current_run # Get(s.last_run_for_engine, s.current_engine)

\* Mutant: no "break" after a match, the later filters see the line too.
RECURSIVE FilterLoopNoBreak(_, _, _, _)
FilterLoopNoBreak(s, k, status, sid) ==
    IF k > Len(filters) THEN s
    ELSE IF AbortSkips(s, k) THEN FilterLoopNoBreak(s, k + 1, status, sid)
    ELSE IF RunRaises(s, k) THEN [s EXCEPT !.raised = "ValueError"]
    ELSE IF RunSkips(s, k) THEN FilterLoopNoBreak(s, k + 1, status, sid)
    ELSE IF Search(s.line, filters[k].pat, TRUE)
    THEN FilterLoopNoBreak(Matched(s, k, status, sid), k + 1, status, sid)
    ELSE FilterLoopNoBreak(s, k + 1, status, sid)

RECURSIVE FilterLoop(_, _, _, _)
FilterLoop(s, k, status, sid) ==
    IF k > Len(filters) THEN s
    ELSE IF AbortSkips(s, k) THEN FilterLoop(s, k + 1, status, sid)
    ELSE IF RunRaises(s, k) THEN [s EXCEPT !.raised = "ValueError"]
    ELSE IF RunSkips(s, k) THEN FilterLoop(s, k + 1, status, sid)
    ELSE IF Search(s.line, filters[k].pat, TRUE) THEN Matched(s, k, status, sid)
    ELSE FilterLoop(s, k + 1, status, sid)

\* Mutant: the filters see the line whether markup is enabled or not.
ClassifyAlways(s, status, sid) ==
    IF s.raised # "" THEN s ELSE FilterLoop(s, 1, status, sid)

\* if not markup_enabled: continue; else the filters.
Classify(s, status, sid) ==
    IF s.raised # "" \/ ~s.markup_enabled THEN s ELSE FilterLoop(s, 1, status, sid)

\* Mutant: the line is appended without its terminator.
AppendLineUnterminated(s) ==
    IF s.raised # "" THEN s
    ELSE IF ~s.markup_enabled THEN [s EXCEPT !.i = @ + 1]
    ELSE [s EXCEPT !.new_log = @ \o s.line, !.i = @ + 1]

\* new_log = new_log + line + '\n', unless the line was skipped.
AppendLine(s) ==
    IF s.raised # "" THEN s
    ELSE IF ~s.markup_enabled THEN [s EXCEPT !.i = @ + 1]
    ELSE [s EXCEPT !.new_log = @ \o s.line \o <<NL>>, !.i = @ + 1]

\* line = html.escape(line), at the head of the loop body.
TakeLine(s) ==
    [s EXCEPT !.line = Escape(s.line_by_line[s.i]),
              !.fired = 0, !.level = "", !.actual_level = ""]

\* One iteration of "for line in line_by_line".
ScanLine(s, status, sid) ==
    AppendLine(Classify(Banner(Enable(Disable(TakeLine(s)))), status, sid))

(***************************************************************************)
(* After the scan: the status line and the report.                         *)
(***************************************************************************)
\* Mutant: the XeTeX/LuaTeX latch decides the status line whatever the
\* compilation status is.
StatusOfLatchFirst(status, xetex_luatex_abort, final_run_had_errors, final_run_had_warnings) ==
    IF xetex_luatex_abort \/ status = "failed"
    THEN IF xetex_luatex_abort
         THEN <<"fatal", "Failed: XeTeX/LuaTeX are not supported at current time.">>
         ELSE <<"fatal", "Failed">>
    ELSE IF status = "succeeded"
    THEN IF final_run_had_errors
         THEN <<"danger", "Succeeded with possible errors. \n\t\tBe sure to carefully inspect log (see below).">>
         ELSE IF final_run_had_warnings
         THEN <<"warning", "Succeeded with warnings. We recommend that you \n\t\tinspect the log (see below).">>
         ELSE <<"success", "Succeeded!">>
    ELSE <<"warning", "Succeeded with warnings">>

\* display_status and status_class.
StatusOf(status, xetex_luatex_abort, final_run_had_errors, final_run_had_warnings) ==
    IF status = "failed"
    THEN IF xetex_luatex_abort
         THEN <<"fatal", "Failed: XeTeX/LuaTeX are not supported at current time.">>
         ELSE <<"fatal", "Failed">>
    ELSE IF status = "succeeded"
    THEN IF final_run_had_errors /\ ~final_run_had_warnings
         THEN <<"danger", "Succeeded with possible errors. \n\t\tBe sure to carefully inspect log (see below).">>
         ELSE IF ~final_run_had_errors /\ final_run_had_warnings
         THEN <<"warning", "Succeeded with warnings. We recommend that you \n\t\tinspect the log (see below).">>
         ELSE IF final_run_had_errors /\ final_run_had_warnings
         THEN <<"danger", "Succeeded with (possibly significant) errors and warnings. \n\t\tPlease be sure to carefully inspect log (see below).">>
         ELSE <<"success", "Succeeded!">>
    ELSE <<"warning", "Succeeded with warnings">>

\* status_line = f"\nProcessing Status: <span class=...>{display_status}</span>\n\n"
StatusLine(s, status) ==
    LET so == StatusOf(status, s.xetex_luatex_abort, s.final_run_had_errors,
                       s.final_run_had_warnings)
    IN <<NL, "Processing Status:", SpanOpen(so[1]), so[2], SpanClose, NL, NL>>

LogHeader == <<NL, NL, "<b>Marked Up Log:</b>", NL, NL>>

\* if error_summary: error_summary = finalize_error_summary(error_summary)
Finalize(s) ==
    IF s.error_summary # <<>>
    THEN [s EXCEPT !.error_summary = finalize_error_summary(@)]
    ELSE s

\* new_log = run_summary + status_line + error_summary + key_summary + ... + new_log
Report(s, status) ==
    s.run_summary \o StatusLine(s, status) \o s.error_summary \o s.key_summary
        \o LogHeader \o s.new_log

(***************************************************************************)
(* The call as a state machine.  pc is the position in the function:       *)
(* "start", "hits" (the loop over hits), "lines" (the loop over lines),    *)
(* "done" (returned) and "raised" (an exception left the function).        *)
(***************************************************************************)
\* A second call of the function, running at the same time: its arguments,
\* its position, its locals and its return value.
Call(log, sid, status, at, locals, res) ==
    [ autotex_log |-> log, submission_id |-> sid, compilation_status |-> status,
      pc |-> at, st |-> locals, result |-> res ]

\* No second call is running.
NoCall == Call(<<>>, 0, "", "done", Locals(<<>>), <<>>)

\* What the scan of one line did, kept for the properties below.
Scanned(s, t) ==
    [ line |-> Escape(s.line_by_line[s.i]),
      out |-> t.line,
      enabled |-> t.markup_enabled,
      fired |-> t.fired,
      level |-> t.level,
      abort |-> s.abort_markup,
      engine |-> t.current_engine,
      run |-> t.current_run,
      last |-> t.last_run,
      raised |-> t.raised ]

\* if re.search(r'No log available.', autotex_log): return autotex_log
Enter ==
    /\ pc = "start"
    /\ IF NoLogAvailable(autotex_log)
       THEN /\ result' = autotex_log
            /\ pc' = "done"
            /\ st' = st
       ELSE /\ st' = Locals(autotex_log)
            /\ pc' = "hits"
            /\ result' = result
    /\ UNCHANGED <<autotex_log, submission_id, compilation_status, trace, other, req>>

NextHit ==
    /\ pc = "hits"
    /\ st.h <= Len(st.hits)
    /\ st' = DiscoverHit(st)
    /\ UNCHANGED <<autotex_log, submission_id, compilation_status, pc, trace, result,
                   other, req>>

EndHits ==
    /\ pc = "hits"
    /\ st.h > Len(st.hits)
    /\ st' = AfterHits(st)
    /\ pc' = "lines"
    /\ UNCHANGED <<autotex_log, submission_id, compilation_status, trace, result, other, req>>

NextLine ==
    /\ pc = "lines"
    /\ st.i <= Len(st.line_by_line)
    /\ st' = ScanLine(st, compilation_status, submission_id)
    /\ trace' = Append(trace, Scanned(st, st'))
    /\ pc' = IF st'.raised # "" THEN "raised" ELSE "lines"
    /\ UNCHANGED <<autotex_log, submission_id, compilation_status, result, other, req>>

Return ==
    /\ pc = "lines"
    /\ st.i > Len(st.line_by_line)
    /\ st' = Finalize(st)
    /\ result' = Report(st', compilation_status)
    /\ pc' = "done"
    /\ UNCHANGED <<autotex_log, submission_id, compilation_status, trace, other, req>>

Next == Enter \/ NextHit \/ EndHits \/ NextLine \/ Return

(***************************************************************************)
(* The steps of the second call.  Every name the function assigns is a     *)
(* local of the call, and RUN_ORDER and the patterns of the module are     *)
(* only read: the locals a call works on are its own, whatever the locals  *)
(* of the other call are.                                                  *)
(***************************************************************************)
\* Mutant: missing_file is a flag of the module, set by either call.
ModuleLatch(own, foreign) ==
    [own EXCEPT !.missing_file = own.missing_file \/ foreign.missing_file]

OwnLocals(own, foreign) == own

OtherEnter ==
    /\ other.pc = "start"
    /\ other' = IF NoLogAvailable(other.autotex_log)
                THEN [other EXCEPT !.result = other.autotex_log, !.pc = "done"]
                ELSE [other EXCEPT !.st = Locals(other.autotex_log), !.pc = "hits"]
    /\ UNCHANGED <<autotex_log, submission_id, compilation_status, pc, st, trace, result,
                 req>>

OtherNextHit ==
    /\ other.pc = "hits"
    /\ other.st.h <= Len(other.st.hits)
    /\ other' = [other EXCEPT !.st = DiscoverHit(OwnLocals(other.st, st))]
    /\ UNCHANGED <<autotex_log, submission_id, compilation_status, pc, st, trace, result,
                 req>>

OtherEndHits ==
    /\ other.pc = "hits"
    /\ other.st.h > Len(other.st.hits)
    /\ other' = [other EXCEPT !.st = AfterHits(OwnLocals(other.st, st)), !.pc = "lines"]
    /\ UNCHANGED <<autotex_log, submission_id, compilation_status, pc, st, trace, result,
                 req>>

\* The locals of the second call after the scan of its next line.
OtherScan ==
    ScanLine(OwnLocals(other.st, st), other.compilation_status, other.submission_id)

OtherNextLine ==
    /\ other.pc = "lines"
    /\ other.st.i <= Len(other.st.line_by_line)
    /\ other' = [other EXCEPT !.st = OtherScan,
                              !.pc = IF OtherScan.raised # "" THEN "raised" ELSE "lines"]
    /\ UNCHANGED <<autotex_log, submission_id, compilation_status, pc, st, trace, result,
                 req>>

OtherReturn ==
    /\ other.pc = "lines"
    /\ other.st.i > Len(other.st.line_by_line)
    /\ other' = [other EXCEPT
                    !.st = Finalize(OwnLocals(other.st, st)),
                    !.result = Report(Finalize(OwnLocals(other.st, st)),
                                      other.compilation_status),
                    !.pc = "done"]
    /\ UNCHANGED <<autotex_log, submission_id, compilation_status, pc, st, trace, result,
                 req>>

\* Two calls, their steps interleaved.
NextPair ==
    \/ Enter \/ NextHit \/ EndHits \/ NextLine \/ Return
    \/ OtherEnter \/ OtherNextHit \/ OtherEndHits \/ OtherNextLine \/ OtherReturn

(***************************************************************************)
(* compile_status (controllers/process.py).  The request being served is   *)
(* the record req: at is the position in the function, response_data,      *)
(* result and e are its locals, flashed the alerts shown to the user,      *)
(* logged the records written to the log, response the value returned.     *)
(* An Optional is a sequence of at most one element.  The submission is    *)
(* one load_submission finds, and process_source.check ends in one of the  *)
(* three ways the try statement tells apart.                               *)
(***************************************************************************)
None == "None"

OK == 200

\* No request is being served.
NoRequest == [at |-> "none"]

\* The request at the entry of compile_status; before holds the alerts
\* flashed earlier in the session.
Request(before) ==
    [at |-> "start", response_data |-> <<>>, result |-> <<>>, e |-> <<>>,
     before |-> before, flashed |-> before, logged |-> <<>>, response |-> <<>>]

\* The values of process_source.CheckResult.status.
CheckStatuses == {"in_progress", "succeeded", "failed"}

\* The items of CheckResult.extra: what the check reports besides the
\* status, under names that are not names of response_data.
ExtraKeys == {"reason", "description"}

Extras == UNION {[K -> {"x", "y"}] : K \in SUBSET ExtraKeys}

CheckResult(status, extra) == [raises |-> "", status |-> status, extra |-> extra]

Raises(exception) == [raises |-> exception, status |-> None, extra |-> <<>>]

\* The ways process_source.check ends.
Outcomes ==
    {CheckResult(s, x) : s \in CheckStatuses, x \in Extras}
        \cup {Raises("NoProcessToCheck"), Raises("FailedToCheckStatus")}

\* dict.update: the items of items replace those of d.
Update(d, items) == items @@ d

\* The response data before the check.
ResponseData(sid) ==
    [submission_id |-> sid, submission |-> [submission_id |-> sid],
     form |-> "CompilationForm", status |-> None]

\* except NoProcessToCheck: pass.
OnNoProcessToCheck(r) == [r EXCEPT !.e = <<"NoProcessToCheck">>]

OnFailedToCheckQuiet(r) ==
    [r EXCEPT !.e = <<"FailedToCheckStatus">>,
              !.logged = Append(@, "Failed to check status")]

\* except FailedToCheckStatus: the error is logged and a failure flashed.
OnFailedToCheck(r) ==
    [r EXCEPT !.e = <<"FailedToCheckStatus">>,
              !.logged = Append(@, "Failed to check status"),
              !.flashed = Append(@, "There was a problem carrying out your request.")]

\* The try statement, the check having ended as o.
Checked(r, o) ==
    IF o.raises = "" THEN [r EXCEPT !.result = <<o>>]
    ELSE IF o.raises = "NoProcessToCheck" THEN OnNoProcessToCheck(r)
    ELSE OnFailedToCheck(r)

\* if result is not None: the status, then the extra items.
Filled(r) ==
    IF r.result # <<>>
    THEN [r EXCEPT !.response_data =
             Update([@ EXCEPT !["status"] = r.result[1].status], r.result[1].extra)]
    ELSE r

\* return response_data, status.OK, {}
Responded(r) ==
    [r EXCEPT !.response = <<[data |-> r.response_data, code |-> OK, headers |-> <<>>]>>]

CompileStatusEnter ==
    /\ req.at = "start"
    /\ req' = [req EXCEPT !.response_data = ResponseData(submission_id), !.at = "check"]
    /\ UNCHANGED <<autotex_log, submission_id, compilation_status, pc, st, trace, result,
                   other>>

CompileStatusCheck ==
    /\ req.at = "check"
    /\ \E o \in Outcomes : req' = [Checked(req, o) EXCEPT !.at = "fill"]
    /\ UNCHANGED <<autotex_log, submission_id, compilation_status, pc, st, trace, result,
                   other>>

CompileStatusFill ==
    /\ req.at = "fill"
    /\ req' = [Filled(req) EXCEPT !.at = "return"]
    /\ UNCHANGED <<autotex_log, submission_id, compilation_status, pc, st, trace, result,
                   other>>

CompileStatusReturn ==
    /\ req.at = "return"
    /\ req' = [Responded(req) EXCEPT !.at = "done"]
    /\ UNCHANGED <<autotex_log, submission_id, compilation_status, pc, st, trace, result,
                   other>>

NextStatus ==
    CompileStatusEnter \/ CompileStatusCheck \/ CompileStatusFill \/ CompileStatusReturn

(***************************************************************************)
(* Inputs.                                                                 *)
(***************************************************************************)
BannerLine(engine, ordinal) ==
    <<"~", "Running", engine, "for the", ordinal, "time", "~">>

Texts(pool, n) == {JoinLines(ls) : ls \in UNION {[1..k -> pool] : k \in 1..n}}

Statuses == {"succeeded", "failed", "unknown"}

InitWith(pool, n, statuses) ==
    /\ autotex_log \in Texts(pool, n)
    /\ submission_id \in {7}
    /\ compilation_status \in statuses
    /\ pc = "start"
    /\ st = Locals(<<>>)
    /\ trace = <<>>
    /\ result = <<>>
    /\ other = NoCall
    /\ req = NoRequest

\* Logs with a sentinel line, raw markup, a hidden run whose ordinal holds
\* markup, and a run whose ordinal is not in RUN_ORDER.
Pool ==
    { BannerLine("latex", "first"),
      BannerLine("hlatex", "<"),
      BannerLine("latex", "fifth"),
      <<"No log available.">>,
      <<"LaTeX", "Warning", ":", "Citation", "x", "undefined">>,
      <<"<", "&", "text">> }

Init == InitWith(Pool, MaxLines, Statuses)

Spec == Init /\ [][Next]_vars

\* Logs of one run with each of the failure signatures of the error summary.
PoolAbort ==
    { BannerLine("latex", "first"),
      <<"!", "The fontspec package requires either XeTeX or LuaTeX.">>,
      <<"AutoTeX returned error: missfont.log present.">>,
      <<"(rerunfilecheck)", "rerun">>,
      <<"file", "a.sty", "not found">>,
      <<"!", "emergency stop">>,
      <<"LaTeX", "Warning", ":", "Citation", "x", "undefined">> }

InitAbort == InitWith(PoolAbort, MaxLines, Statuses)

SpecAbort == InitAbort /\ [][Next]_vars

\* Logs of up to two runs of one engine, with lines whose class depends on
\* the run.
PoolRuns ==
    { BannerLine("latex", "first"),
      BannerLine("latex", "second"),
      BannerLine("hlatex", "first"),
      <<"LaTeX", "Warning", ":", "Citation", "x", "undefined">>,
      <<"(rerunfilecheck)", "rerun">> }

InitRuns == InitWith(PoolRuns, MaxLines + 1, {"succeeded"})

SpecRuns == InitRuns /\ [][Next]_vars

(***************************************************************************)
(* Properties.                                                             *)
(***************************************************************************)
Levels == {"ignore", "fatal", "danger", "warning", "info", "success"}

SpanOpens == {SpanOpen(l) : l \in Levels}

IsText(a) == a \notin SpanOpens \cup {SpanClose}

\* A line without the spans the filters put in.
Strip(line) == SelectSeq(line, IsText)

\* The classes of the spans of a line.
Classes(line) == {l \in Levels : \E i \in DOMAIN line : line[i] = SpanOpen(l)}

\* The class a filter marks its match with.
ClassOf(k) == IF filters[k].level = "abort" THEN "fatal" ELSE filters[k].level

\* The place of an ordinal in the order first < second < third < fourth.
OrdinalRank(o) ==
    CASE o = <<"first">> -> 1
      [] o = <<"second">> -> 2
      [] o = <<"third">> -> 3
      [] o = <<"fourth">> -> 4
      [] OTHER -> 0

\* The scanned lines that reached the filters.
Classified == {i \in DOMAIN trace : trace[i].enabled /\ trace[i].raised = ""}

Returned == pc = "done"

Annotated == Returned /\ st.line_by_line # <<>>

\* C1: when the early exit is not taken, no "<", ">" or "&" of the input
\* stands unescaped in the returned text.
C1_NoRawMarkup ==
    Annotated => \A i \in DOMAIN result : result[i] \notin RawMarkup

\* C2: the call never raises an error to its caller.
C2_NeverRaises == pc # "raised"

\* C3: a transcript that contains the literal "No log available." is
\* returned exactly as it was passed.
C3_SentinelUnchanged ==
    (Returned /\ \E i \in DOMAIN autotex_log : autotex_log[i] = "No log available.")
        => result = autotex_log

\* A returned call whose transcript holds the sentinel after a run banner
\* and a line the filters would have marked.
C3_Witness ==
    /\ Returned
    /\ \E i, j, k \in DOMAIN autotex_log :
          /\ i < j /\ j < k
          /\ autotex_log[i] = "Running"
          /\ autotex_log[j] = "Citation"
          /\ autotex_log[k] = "No log available."

\* Whether filter k may fire on the scanned line t: the abort latch lets
\* only fatal and abort filters through, and once a run is current the
\* filter's activation must not lie after it, a "last" filter needing the
\* last recorded run of the engine.
MayFire(t, k) ==
    /\ t.abort => filters[k].level \in {"fatal", "abort"}
    /\ \/ t.run = <<>>
       \/ /\ OrdinalRank(RunOf(k)) <= OrdinalRank(t.run)
          /\ RunOf(k) = <<"last">> => t.run = Get(st.last_run_for_engine, t.engine)

\* The filters that may fire on the scanned line t and match it.
Firing(t) ==
    {k \in DOMAIN filters : MayFire(t, k) /\ Search(t.line, filters[k].pat, TRUE)}

\* The first filter of Firing(t) fired, and it alone marked the line.
FirstFired(t, firing) ==
    IF firing = {}
    THEN t.fired = 0 /\ t.out = t.line
    ELSE /\ t.fired = MinOf(firing)
         /\ Classes(t.out) = {ClassOf(MinOf(firing))}
         /\ Strip(t.out) = t.line

\* The lines of the trace that reached the filters, as they were appended.
RECURSIVE OutLines(_)
OutLines(tr) ==
    IF tr = <<>> THEN <<>>
    ELSE (IF Head(tr).enabled /\ Head(tr).raised = "" THEN Head(tr).out \o <<NL>>
          ELSE <<>>) \o OutLines(Tail(tr))

\* The line scanned last, if it reached the filters.  The trace only grows,
\* by the line an iteration scans, and the run discovery is over before the
\* first line is scanned: what holds of the newest line in every state
\* holds of every line of the trace.
Newest == {i \in Classified : i = Len(trace)}

\* C4: on a line scanned with markup enabled the first filter, in list
\* order, that may fire and matches the line marks it with its class, and no
\* other filter does; a line no such filter matches is appended as it is.
C4_OneFilterPerLine ==
    /\ \A i \in Newest : FirstFired(trace[i], Firing(trace[i]))
    /\ pc = "lines" => st.new_log = OutLines(trace)

\* A line that three filters of different classes match was marked by the
\* first of them.
C4_Witness ==
    \E i \in Classified :
        /\ Cardinality({ClassOf(k) : k \in Firing(trace[i])}) >= 2
        /\ trace[i].fired = MinOf(Firing(trace[i]))
        /\ trace[i].run # <<>>

\* The classes a line scanned under the abort latch can be marked with.
UnderLatch(t) == t.level \in {"", "fatal"} /\ Classes(t.out) \subseteq {"fatal"}

\* C5: the abort latch is never cleared, and a line scanned while it is set
\* is marked by a fatal or abort filter or by none.
C5_AbortLatch ==
    [][ /\ st.abort_markup => st'.abort_markup
        /\ (st.abort_markup /\ Len(trace') > Len(trace))
              => UnderLatch(trace'[Len(trace')]) ]_vars

\* After the latch was set, a line that a warning filter matches was
\* scanned and left unmarked.
C5_Witness ==
    \E i \in Classified :
        /\ trace[i].abort
        /\ trace[i].fired = 0
        /\ \E j \in DOMAIN trace[i].line : trace[i].line[j] = "Citation"

\* The one-shot latches.
Latches(s) ==
    <<s.xetex_luatex_abort, s.missing_font_markup, s.rerun_markup, s.missing_file,
      s.emergency_stop>>

\* The first atom of each kind of entry of the error summary.
EntryHeads ==
    {XetexEntry(0)[1], MissingFontEntry(0)[1], RerunEntry[1], MissingFileEntry(<<>>)[1],
     EmergencyStopEntry[1]}

Count(text, a) == Cardinality({i \in DOMAIN text : text[i] = a})

\* C6: none of the five one-shot latches returns to false, and the error
\* summary holds at most one entry of each kind.
C6_OneShotLatches ==
    [][ /\ \A n \in DOMAIN Latches(st) : Latches(st)[n] => Latches(st')[n]
        /\ \A a \in EntryHeads : Count(st'.error_summary, a) <= 1
        /\ \A a \in EntryHeads : Count(result', a) <= 1 ]_vars

\* The whole log was scanned, two of its lines reported a missing file, and
\* the summary holds the entry.
C6_Witness ==
    /\ Returned
    /\ Cardinality({i \in Classified : trace[i].fired = 11}) >= 2
    /\ Count(result, MissingFileEntry(<<>>)[1]) = 1

\* The ordinal rule for filter k on the scanned line t, a line before the
\* first banner counting as a line of a first run.
OrdinalRule(t, k) ==
    IF RunOf(k) = <<"last">>
    THEN /\ t.run # <<>>
         /\ HasKey(st.last_run_for_engine, t.engine)
         /\ t.run = Get(st.last_run_for_engine, t.engine)
    ELSE OrdinalRank(RunOf(k)) <= (IF t.run = <<>> THEN 1 ELSE OrdinalRank(t.run))

\* C7: on every scanned line, the lines before the first banner included,
\* the filter that fired satisfies the ordinal rule: a "last" filter fires
\* only in the last recorded run of the current engine, a filter of a
\* numbered run only in that run or a later one.
C7_OrdinalRuleEverywhere ==
    \A i \in Newest : trace[i].fired # 0 => OrdinalRule(trace[i], trace[i].fired)

\* The transcript is two runs, first and second, of one real engine.
TwoRuns ==
    /\ pc \in {"lines", "done"}
    /\ Len(st.hits) = 2
    /\ st.hits[1].engine = st.hits[2].engine
    /\ st.hits[1].engine \in {TEX, LATEX, PDFLATEX}
    /\ st.hits[1].run = <<"first">>
    /\ st.hits[2].run = <<"second">>

\* Filter k has activation "second" or "last".
Late(k) == RunOf(k) \in {<<"second">>, <<"last">>}

\* The late filters that match the scanned line t.
LateMatching(t) ==
    {k \in DOMAIN filters : Late(k) /\ Search(t.line, filters[k].pat, TRUE)}

IsCitation(t) == Search(t.line, filters[19].pat, TRUE)

\* What C8 says of the scanned line t, given the late filters matching it.
TwoRunsLine(t, late) ==
    /\ t.run = <<"first">> =>
          /\ t.fired # 0 => ~Late(t.fired)
          /\ IsCitation(t) => Classes(t.out) = {"ignore"}
    /\ (t.run = <<"second">> /\ ~t.abort) =>
          /\ late # {} => (t.fired # 0 /\ t.fired <= MinOf(late))
          /\ IsCitation(t) => Classes(t.out) = {"warning"}

\* C8: in a transcript of a first and a second run of one real engine, no
\* filter with activation "second" or "last" fires on a line of the first
\* run, and on a line of the second run such a filter that matches fires
\* unless an earlier filter does; an undefined citation is classed ignore in
\* the first run and warning in the second.
C8_TwoRuns ==
    TwoRuns => \A i \in Newest : TwoRunsLine(trace[i], LateMatching(trace[i]))

\* An undefined citation was scanned in the first run and again in the
\* second, and the report was returned.
C8_Witness ==
    /\ TwoRuns /\ Returned
    /\ \E i, j \in Classified :
          /\ trace[i].run = <<"first">> /\ IsCitation(trace[i])
          /\ trace[j].run = <<"second">> /\ IsCitation(trace[j])
          /\ trace[j].fired = 19

\* The scanned lines from the first banner on.
FromBanner ==
    {i \in DOMAIN trace : \E j \in 1..i : RunSearch(trace[j].line) # <<>>}

\* The "last" filters that match the scanned line t.
LastMatching(t) ==
    {k \in DOMAIN filters :
        RunOf(k) = <<"last">> /\ Search(t.line, filters[k].pat, TRUE)}

\* What C9 says of the scanned line t, given the "last" filters matching it.
OneRunLine(t, matching) ==
    /\ t.last
    /\ t.run = Get(st.last_run_for_engine, t.engine)
    /\ (t.enabled /\ ~t.abort /\ matching # {}) =>
          (t.fired # 0 /\ t.fired <= MinOf(matching))

\* C9: in a transcript with exactly one banner the last-run flag is true
\* from the line of the banner on, the current run is the last recorded run
\* of its engine, and a "last" filter that matches a line of the run fires
\* unless an earlier filter does.
C9_SingleRunIsLast ==
    (pc \in {"lines", "done"} /\ Len(st.hits) = 1) =>
        \A i \in FromBanner \cap {Len(trace)} :
            OneRunLine(trace[i], LastMatching(trace[i]))

\* A "last" filter fired on a line after the only banner of the transcript.
C9_Witness ==
    /\ Returned /\ Len(st.hits) = 1
    /\ \E i \in FromBanner :
          /\ RunSearch(trace[i].line) = <<>>
          /\ trace[i].fired # 0
          /\ RunOf(trace[i].fired) = <<"last">>
          /\ trace[i].last

\* The table of status lines, by the compilation status, the XeTeX/LuaTeX
\* latch and the two flags of the final run: the class and the display.
StatusTable(status, abort, errors, warnings) ==
    CASE status = "failed" /\ abort ->
            <<"fatal", "Failed: XeTeX/LuaTeX are not supported at current time.">>
      [] status = "failed" /\ ~abort -> <<"fatal", "Failed">>
      [] status = "succeeded" /\ errors /\ ~warnings ->
            <<"danger", "Succeeded with possible errors. \n\t\tBe sure to carefully inspect log (see below).">>
      [] status = "succeeded" /\ ~errors /\ warnings ->
            <<"warning", "Succeeded with warnings. We recommend that you \n\t\tinspect the log (see below).">>
      [] status = "succeeded" /\ errors /\ warnings ->
            <<"danger", "Succeeded with (possibly significant) errors and warnings. \n\t\tPlease be sure to carefully inspect log (see below).">>
      [] status = "succeeded" /\ ~errors /\ ~warnings -> <<"success", "Succeeded!">>
      [] status \notin {"failed", "succeeded"} -> <<"warning", "Succeeded with warnings">>

\* The status line with class and display row stands once in the text.
ShowsStatus(text, row) ==
    /\ Count(text, "Processing Status:") = 1
    /\ \E i \in DOMAIN text :
          /\ text[i] = "Processing Status:"
          /\ i + 3 <= Len(text)
          /\ text[i + 1] = SpanOpen(row[1])
          /\ text[i + 2] = row[2]
          /\ text[i + 3] = SpanClose

\* C10: the report of a scanned log shows the status line that the table
\* gives for the compilation status, the XeTeX/LuaTeX latch and the flags
\* of the final run.
C10_StatusTable ==
    (Returned /\ ~NoLogAvailable(autotex_log)) =>
        ShowsStatus(result, StatusTable(compilation_status, st.xetex_luatex_abort,
                                        st.final_run_had_errors,
                                        st.final_run_had_warnings))

\* A log whose compilation succeeded set the XeTeX/LuaTeX latch and the
\* errors flag, and the report says so.
C10_Witness ==
    /\ Returned
    /\ compilation_status = "succeeded"
    /\ st.xetex_luatex_abort /\ st.final_run_had_errors /\ ~st.final_run_had_warnings
    /\ ShowsStatus(result, <<"danger", "Succeeded with possible errors. \n\t\tBe sure to carefully inspect log (see below).">>)

\* The scanned lines that are run banners.
Banners == {i \in DOMAIN trace : RunSearch(trace[i].line) # <<>>}

\* The scanned lines of the final run: the last banner and what follows it.
FinalRun == {i \in DOMAIN trace : Banners # {} /\ i >= MaxOf(Banners)}

\* A filter of severity warning, danger, fatal or abort fired on line t.
Severe(t) == t.fired # 0 /\ filters[t.fired].level \in {"warning", "danger", "fatal", "abort"}

\* C11: when the compilation succeeded and no filter of severity warning,
\* danger, fatal or abort fired on a line of the final run, the status line
\* is "Succeeded!" with class success, whatever fired on earlier lines.
C11_CleanFinalRun ==
    (/\ Returned /\ ~NoLogAvailable(autotex_log)
     /\ compilation_status = "succeeded"
     /\ Banners # {}
     /\ \A i \in FinalRun : ~Severe(trace[i]))
        => ShowsStatus(result, <<"success", "Succeeded!">>)

(***************************************************************************)
(* Logs with the three fontspec signatures.                                *)
(***************************************************************************)
PoolFontspec ==
    { BannerLine("latex", "first"),
      <<"!", "Fatal", "fontspec", "error", ":", "\"", "cannot-use-pdftex", "\"">>,
      <<"!", "The fontspec package requires either XeTeX or LuaTeX.">>,
      <<"See", "{cannot-use-pdftex}">>,
      <<"LaTeX", "Warning", ":", "Citation", "x", "undefined">> }

InitFontspec == InitWith(PoolFontspec, MaxLines, {"succeeded", "failed"})

SpecFontspec == InitFontspec /\ [][Next]_vars

\* The line of the log, as written, holds one of the fontspec signatures.
Signature(line) ==
    \/ Search(line, filters[2].pat, FALSE)
    \/ Search(line, filters[3].pat, FALSE)
    \/ Search(line, filters[4].pat, FALSE)

\* The lines of the log, as written, that hold a fontspec signature.
Signatures == {i \in DOMAIN st.line_by_line : Signature(st.line_by_line[i])}

\* The error summary holds one XeTeX/LuaTeX entry, naming the submission.
OneXetexEntry(summary) ==
    /\ Count(summary, XetexEntry(submission_id)[1]) = 1
    /\ Count(summary, "submit/" \o ToString(submission_id)) = 1

\* C12: when a line holding a fontspec signature is scanned the abort latch
\* is set and the error summary holds one XeTeX/LuaTeX entry naming the
\* submission, every later line is marked by a fatal or abort filter or by
\* none, and the report of a failed compilation says that XeTeX/LuaTeX are
\* not supported.
C12_FontspecAbort ==
    /\ \A i \in Newest :
          /\ i \in Signatures => (st.abort_markup /\ OneXetexEntry(st.error_summary))
          /\ (\E j \in Signatures : j < i) => UnderLatch(trace[i])
    /\ (Returned /\ Signatures # {} /\ compilation_status = "failed") =>
          ShowsStatus(result,
              <<"fatal", "Failed: XeTeX/LuaTeX are not supported at current time.">>)

(***************************************************************************)
(* Logs of a failed compilation whose only failure signature is the        *)
(* missing font, in a run that is shown or in a hidden run.                *)
(***************************************************************************)
PoolMissfont ==
    { BannerLine("latex", "first"),
      BannerLine("hlatex", "first"),
      <<"AutoTeX returned error: missfont.log present.">>,
      <<"Warning", ":", "missfont.log present">>,
      <<"text">> }

InitMissfont == InitWith(PoolMissfont, MaxLines, {"failed"})

SpecMissfont == InitMissfont /\ [][Next]_vars

\* The line of the log, as written, holds "missfont.log present".
IsMissfont(line) == Search(line, Word("missfont.log present"), FALSE)

\* C13: the report of a failed compilation whose log holds the missing-font
\* signature, on one line or on several, holds exactly one missing-font
\* entry.
C13_OneMissingFontEntry ==
    (/\ Returned
     /\ compilation_status = "failed"
     /\ \E i \in DOMAIN st.line_by_line : IsMissfont(st.line_by_line[i]))
        => Count(result, MissingFontEntry(submission_id)[1]) = 1

(***************************************************************************)
(* Logs of two runs with missing files and emergency stops.                *)
(***************************************************************************)
PoolFiles ==
    { BannerLine("latex", "first"),
      BannerLine("latex", "second"),
      <<"file", "a.sty", "not found">>,
      <<"fatal", ":", "file", "a.sty", "not found">>,
      <<"!", "emergency stop">>,
      <<"emergency stop", "file", "b.sty", "not found">> }

InitFiles == InitWith(PoolFiles, MaxLines, {"succeeded", "failed"})

SpecFiles == InitFiles /\ [][Next]_vars

\* The scanned line t reports a missing file.
IsMissingFile(t) == Search(t.line, filters[11].pat, TRUE)

\* The scanned line t lies in a run that is not the last run of its engine.
NotFinal(t) ==
    /\ t.run # <<>>
    /\ HasKey(st.last_run_for_engine, t.engine)
    /\ t.run # Get(st.last_run_for_engine, t.engine)

\* The missing-file entries of an error summary.
FileEntries(summary) == Count(summary, MissingFileEntry(<<>>)[1])

\* C14: once a line reporting a missing file has been scanned in a run that
\* is not the last run of its engine, whatever else the line holds, the
\* error summary holds the missing-file entry.
C14_MissingFileAnyRun ==
    \A i \in Newest :
        (IsMissingFile(trace[i]) /\ NotFinal(trace[i]))
            => FileEntries(st.error_summary) = 1

\* The emergency-stop entries of an error summary.
StopEntries(summary) == Count(summary, EmergencyStopEntry[1])

\* The scanned line t reports an emergency stop.
IsStop(t) == Search(t.line, Word("emergency stop"), TRUE)

\* What C15 says of the step from s to s2 that scanned the line t.
NoStopEntry(s, s2, t) ==
    /\ s2.missing_file =>
          /\ s2.emergency_stop = s.emergency_stop
          /\ StopEntries(s2.error_summary) = StopEntries(s.error_summary)
    /\ (s.missing_file /\ IsStop(t)) => s2.error_summary = s.error_summary

\* C15: a step that scans a line after the missing-file entry was added, or
\* that adds it, adds no emergency-stop entry and leaves the emergency-stop
\* latch as it was; an emergency stop scanned after the missing file was
\* reported leaves the error summary unchanged.
C15_NoStopAfterMissingFile ==
    [][ Len(trace') > Len(trace) => NoStopEntry(st, st', trace'[Len(trace')]) ]_vars

\* A missing file was reported, an emergency stop was scanned on a later
\* line and marked, and the summary holds no emergency-stop entry.
C15_Witness ==
    /\ Returned
    /\ \E i, j \in Classified :
          /\ i < j
          /\ trace[i].fired = 11
          /\ trace[j].fired = 13
    /\ st.missing_file /\ ~st.emergency_stop
    /\ StopEntries(result) = 0
    /\ FileEntries(result) = 1

\* The log holds no run banner.
NoBanner == FindAllRuns(SplitLines(autotex_log)) = <<>>

\* The log holds the sentinel of a log that was not generated.
HasSentinel == \E i \in DOMAIN autotex_log : autotex_log[i] = "No log available."

EndsWithLog(text, body) ==
    /\ Len(text) >= Len(LogHeader) + Len(body)
    /\ SubSeq(text, Len(text) - Len(body) + 1, Len(text)) = body
    /\ SubSeq(text, Len(text) - Len(body) - Len(LogHeader) + 1, Len(text) - Len(body))
          = LogHeader

Entries(text) == Cardinality({i \in DOMAIN text : text[i] \in EntryHeads})

\* How often the opening and the closing of the list stand in a text.
Openings(text) == <<Count(text, "Critical Errors:"), Count(text, "<ul>")>>

Closings(text) == Count(text, "</ul>")

\* The error summary during the scan: empty, or opened once and not closed.
LazilyOpened(summary) ==
    IF Entries(summary) = 0 THEN summary = <<>>
    ELSE /\ Openings(summary) = <<1, 1>>
         /\ SubSeq(summary, 1, Len(initialize_error_summary)) = initialize_error_summary
         /\ Closings(summary) = 0

\* The report: the list is opened and closed once, or there is no list.
ClosedOnce(text) ==
    IF Entries(text) = 0 THEN Openings(text) = <<0, 0>> /\ Closings(text) = 0
    ELSE Openings(text) = <<1, 1>> /\ Closings(text) = 1

\* C17: during the scan the error summary is empty until the first entry is
\* added, and from then on begins with the opening of the list, written
\* once, and is not closed; the report holds the list opened once and
\* closed once if an entry was added, and no list if none was.
C17_LazyErrorSummary ==
    /\ pc \in {"hits", "lines"} => LazilyOpened(st.error_summary)
    /\ (Returned /\ ~HasSentinel) => ClosedOnce(result)

\* A report with two entries in one list.
C17_Witness ==
    /\ Returned
    /\ Entries(result) >= 2
    /\ Openings(result) = <<1, 1>> /\ Closings(result) = 1

(***************************************************************************)
(* Two calls at the same time, on logs that set the latches.               *)
(***************************************************************************)
PoolPair ==
    { BannerLine("latex", "first"),
      <<"file", "a.sty", "not found">> }

InitPair ==
    /\ autotex_log \in Texts(PoolPair, MaxLines)
    /\ submission_id \in {7}
    /\ compilation_status \in {"failed"}
    /\ pc = "start"
    /\ st = Locals(<<>>)
    /\ trace = <<>>
    /\ result = <<>>
    /\ other \in {Call(log, 8, "succeeded", "start", Locals(<<>>), <<>>) :
                    log \in Texts(PoolPair, MaxLines - 1)}
    /\ req = NoRequest

SpecPair == InitPair /\ [][NextPair]_vars

\* The call run alone, from its first statement to its last.
RECURSIVE RunHits(_)
RunHits(s) == IF s.h > Len(s.hits) THEN AfterHits(s) ELSE RunHits(DiscoverHit(s))

RECURSIVE RunLines(_, _, _)
RunLines(s, status, sid) ==
    IF s.raised # "" \/ s.i > Len(s.line_by_line) THEN s
    ELSE RunLines(ScanLine(s, status, sid), status, sid)

\* How the scan that ended with the locals s ends the call.
Ending(s, status) ==
    IF s.raised # "" THEN <<"raised", s.raised>>
    ELSE <<"done", Report(Finalize(s), status)>>

\* How the call ends, run alone: returned or raised, and with what.
Alone(log, sid, status) ==
    IF NoLogAvailable(log) THEN <<"done", log>>
    ELSE Ending(RunLines(RunHits(Locals(log)), status, sid), status)

OfTheLine(s, s2) ==
    [s2 EXCEPT !.i = s.i, !.line = s.line, !.level = s.level,
               !.actual_level = s.actual_level, !.fired = s.fired]

\* The locals that a run banner sets.
OfTheRun(s, s2) ==
    [s2 EXCEPT !.current_engine = s.current_engine, !.current_run = s.current_run,
               !.last_run = s.last_run]

\* What C19 says of the step from s to s2 that skipped a line.
Skipped(s, s2) ==
    /\ s2.new_log = s.new_log
    /\ s2.abort_markup = s.abort_markup
    /\ Latches(s2) = Latches(s)
    /\ s2.error_summary = s.error_summary
    /\ s2.final_run_had_errors = s.final_run_had_errors
    /\ s2.final_run_had_warnings = s.final_run_had_warnings
    /\ ~s.markup_enabled => OfTheRun(s, OfTheLine(s, s2)) = s

\* C19: a step that scans a line and leaves markup disabled appends nothing
\* to the annotated log and leaves the abort latch, the five one-shot
\* latches, the error summary and the flags of the final run as they were;
\* when markup was disabled before the line as well, the step changes
\* nothing but the current engine, the current run and the last-run flag.
C19_SkippedLineFrame ==
    [][ (Len(trace') > Len(trace) /\ ~st'.markup_enabled /\ st'.raised = "")
            => Skipped(st, st') ]_vars

\* With markup disabled, a line that the filters would have marked was
\* skipped, and so was a banner, which set the current engine.
C19_Witness ==
    \E i, j \in DOMAIN trace :
        /\ 1 < i /\ 1 < j
        /\ ~trace[i - 1].enabled /\ ~trace[i].enabled
        /\ IsCitation(trace[i]) /\ trace[i].fired = 0
        /\ ~trace[j - 1].enabled /\ ~trace[j].enabled
        /\ RunSearch(trace[j].line) # <<>>
        /\ trace[j].engine = <<"hlatex">>

(***************************************************************************)
(* Logs with hidden runs, of an engine that runs and of one that does not. *)
(***************************************************************************)
PoolHidden ==
    { BannerLine("tex", "first"),
      BannerLine("htex", "first"),
      BannerLine("hlatex", "first"),
      <<"text">> }

InitHidden == InitWith(PoolHidden, MaxLines + 1, {"failed"})

SpecHidden == InitHidden /\ [][Next]_vars

\* The engine whose hidden variant e is, if e is one.
RealOf(e) ==
    CASE e = <<"htex">> -> TEX
      [] e = <<"hlatex">> -> LATEX
      [] e = <<"hpdflatex">> -> PDFLATEX
      [] OTHER -> <<>>

\* The engines that have a banner in the log.
Ran == {st.hits[h].engine : h \in DOMAIN st.hits}

\* C20: a line that is not appended to the annotated log lies in the run of
\* a hidden variant whose real engine has a banner in the log; the lines
\* before the first banner, of the runs of real engines and of the hidden
\* runs of an engine that never runs are appended.
C20_OnlyHiddenRunsDropped ==
    \A i \in DOMAIN trace :
        (i = Len(trace) /\ trace[i].raised = "" /\ ~trace[i].enabled)
            => (RealOf(trace[i].engine) # <<>> /\ RealOf(trace[i].engine) \in Ran)

\* The entries of an error summary other than the missing-file entry.
GatedEntries(summary) == Entries(summary) - FileEntries(summary)

\* The scanned line t lies in the last recorded run of the current engine.
InFinalRun(t) ==
    /\ t.run # <<>>
    /\ HasKey(st.last_run_for_engine, t.engine)
    /\ t.run = Get(st.last_run_for_engine, t.engine)

\* C21: a step that adds an entry other than the missing-file entry to the
\* error summary (XeTeX/LuaTeX, missing font, rerun, emergency stop) scans a
\* line of the last recorded run of the current engine.
C21_OnlyMissingFileAnyRun ==
    [][ (/\ Len(trace') > Len(trace)
         /\ GatedEntries(st'.error_summary) > GatedEntries(st.error_summary))
            => InFinalRun(trace'[Len(trace')]) ]_vars

C23_LastRunFlagOfCurrentRun ==
    \A i \in DOMAIN trace :
        (i = Len(trace) /\ trace[i].raised = "" /\ trace[i].run # <<>>)
            => (trace[i].last <=> InFinalRun(trace[i]))

\* The banners of the log, in the order of the log.
BannersOf(log) == FindAllRuns(SplitLines(log))

\* The place of the last banner of engine e among the banners bs.
LastOf(bs, e) == MaxOf({i \in DOMAIN bs : bs[i].engine = e})

\* The dictionary d holds, for every engine with a banner and for no other
\* key, the ordinal of the engine's last banner.
LastOrdinals(d, bs) ==
    /\ {d[i][1] : i \in DOMAIN d} = {bs[i].engine : i \in DOMAIN bs}
    /\ Len(d) = Cardinality({bs[i].engine : i \in DOMAIN bs})
    /\ \A i \in DOMAIN d : d[i][2] = bs[LastOf(bs, d[i][1])].run

\* The lines of the run summary for the banners bs.
RECURSIVE RunningLines(_)
RunningLines(bs) ==
    IF bs = <<>> THEN <<>>
    ELSE <<"\tRunning">> \o Head(bs).engine \o <<"for">> \o Head(bs).run
            \o <<"time.", NL>> \o RunningLines(Tail(bs))

\* The run summary begins with its head and one line for each banner.
ListsRuns(summary, listed) ==
    /\ Len(summary) > Len(listed)
    /\ SubSeq(summary, 1, Len(listed)) = listed
    /\ summary[Len(listed) + 1] = NL
    /\ Count(summary, "\tRunning") * 6 = Len(listed) - Len(RunSummaryHead)

\* The final run, for the status: the last banner of the log, if there is one.
FinalIs(s, bs) ==
    IF bs = <<>> THEN s.success_last_engine = <<>> /\ s.success_last_run = <<>>
    ELSE /\ s.success_last_engine = bs[Len(bs)].engine
         /\ s.success_last_run = bs[Len(bs)].run

\* What C24 says of the locals s after the discovery of the banners bs.
Discovered(s, bs) ==
    /\ LastOrdinals(s.last_run_for_engine, bs)
    /\ ListsRuns(s.run_summary, RunSummaryHead \o RunningLines(bs))
    /\ FinalIs(s, bs)

\* C24: after the run discovery the dictionary of last runs holds one item
\* for each engine that has a banner, the ordinal of its last banner; the
\* run summary lists the banners one by one in the order of the log; the
\* final run is the run of the last banner of the log.
C24_RunDiscovery ==
    pc \in {"lines", "done"} /\ ~HasSentinel => Discovered(st, BannersOf(autotex_log))

\* A log of two engines, one of them with a first and then a second run,
\* was discovered.
C24_Witness ==
    /\ pc = "lines"
    /\ Len(st.hits) = 3
    /\ Len(st.last_run_for_engine) = 2
    /\ HasKey(st.last_run_for_engine, LATEX)
    /\ Get(st.last_run_for_engine, LATEX) = <<"second">>
    /\ st.hits[1] = [engine |-> LATEX, run |-> <<"first">>]
    /\ st.success_last_engine = <<"hlatex">>

(***************************************************************************)
(* C25: the response of compile_status.                                    *)
(***************************************************************************)
\* Requests for two submissions, in a session with and without an alert
\* flashed earlier.
InitStatus ==
    /\ autotex_log = <<>>
    /\ submission_id \in {7, 8}
    /\ compilation_status = ""
    /\ pc = "idle"
    /\ st = Locals(<<>>)
    /\ trace = <<>>
    /\ result = <<>>
    /\ other = NoCall
    /\ req \in {Request(before) : before \in {<<>>, <<"earlier">>}}

SpecStatus == InitStatus /\ [][NextStatus]_vars

\* The request r was answered with the code 200 and no headers.
Answered(r) ==
    /\ Len(r.response) = 1
    /\ r.response[1].code = 200
    /\ r.response[1].headers = <<>>

\* The request r flashed n alerts of its own.
Flashed(r, n) ==
    /\ Len(r.flashed) = Len(r.before) + n
    /\ SubSeq(r.flashed, 1, Len(r.before)) = r.before

\* C25: compile_status returns the code 200 and an empty header map.  With
\* nothing to check the status of the response is None and nothing is
\* flashed; when the check fails the error is logged, one failure is
\* flashed and the status is None; the status is that of the result when,
\* and only when, the check returned one.
C25_StatusResponse ==
    req.at = "done" =>
        /\ Answered(req)
        /\ req.e = <<"NoProcessToCheck">> =>
              /\ req.response[1].data["status"] = None
              /\ Flashed(req, 0)
              /\ req.logged = <<>>
        /\ req.e = <<"FailedToCheckStatus">> =>
              /\ req.response[1].data["status"] = None
              /\ Flashed(req, 1)
              /\ Len(req.logged) = 1
        /\ req.result = <<>> => req.response[1].data["status"] = None
        /\ req.result # <<>> =>
              /\ req.response[1].data["status"] = req.result[1].status
              /\ Flashed(req, 0)

\* The check failed in a session that had an alert already.
C25_Witness ==
    /\ req.at = "done"
    /\ req.e = <<"FailedToCheckStatus">>
    /\ req.before = <<"earlier">>
    /\ Len(req.flashed) = 2
    /\ req.response[1].data["submission_id"] = 8

(***************************************************************************)
(* C26: the body of the annotated log.                                     *)
(***************************************************************************)
\* The lines of the input whose scan ended with markup enabled, escaped, in
\* the order of the input.
RECURSIVE KeptLines(_, _)
KeptLines(lines, tr) ==
    IF lines = <<>> \/ tr = <<>> THEN <<>>
    ELSE (IF Head(tr).enabled THEN <<Escape(Head(lines))>> ELSE <<>>)
            \o KeptLines(Tail(lines), Tail(tr))

\* The body of a report: what follows the header of the log.
BodyOf(text) ==
    LET at == {i \in DOMAIN text : text[i] = "<b>Marked Up Log:</b>"}
    IN IF at = {} THEN <<>> ELSE SubSeq(text, MaxOf(at) + 3, Len(text))

\* The lines of the body are the lines kept, one by one, whatever spans the
\* annotation put in them.
SameLines(body, kept) ==
    /\ Len(body) = Len(kept)
    /\ \A j \in DOMAIN kept : Strip(body[j]) = kept[j]

\* Every line of the body is followed by one terminator.
Terminated(body, n) ==
    /\ Count(body, NL) = n
    /\ body # <<>> => body[Len(body)] = NL

\* C26: the body of the annotated log holds the lines of the input that
\* were scanned with markup enabled, and no other line, in the order of the
\* input, each of them once and each followed by one line terminator.
C26_BodyIsKeptLines ==
    (Returned /\ ~HasSentinel) =>
        /\ Len(trace) = Len(SplitLines(autotex_log))
        /\ EndsWithLog(result, BodyOf(result))
        /\ SameLines(SplitLines(BodyOf(result)), KeptLines(SplitLines(autotex_log), trace))
        /\ Terminated(BodyOf(result), Len(KeptLines(SplitLines(autotex_log), trace)))

\* A log of four lines was returned with three of them in the body: the
\* banner of a hidden run between them was dropped, and a line of the body
\* carries a span.
C26_Witness ==
    /\ Returned
    /\ Len(trace) = 4
    /\ trace[1].enabled /\ ~trace[2].enabled /\ trace[3].enabled /\ trace[4].enabled
    /\ \E i \in DOMAIN trace : trace[i].enabled /\ trace[i].fired > 0
    /\ Count(BodyOf(result), NL) = 3

====
